---- MODULE Spec2Model ----
(***************************************************************************)
(* A model of comments.py: remove_inline_comments (the line filter with    *)
(* its text-mode read and write) and main (the argument check and the      *)
(* os.walk driver with its per-file try/except).                           *)
(*                                                                         *)
(* Text is a sequence of one-character strings.  A stored file is the      *)
(* sequence of its characters as they are on disk; BAD stands for a byte   *)
(* sequence that is not valid UTF-8.                                       *)
(***************************************************************************)
EXTENDS Naturals, Sequences, FiniteSets

VARIABLES
    argc,               \* len(sys.argv)
    linesep,            \* os.linesep of the platform the script runs on
    walk,               \* the file names os.walk yields, in its order
    fs,                 \* file name -> stored characters
    orig,               \* fs as it was when the program started (history)
    pc,                 \* position in main / remove_inline_comments
    i,                  \* position of the walk (index into walk)
    handles,            \* the open file objects, <<name, mode>>
    content,            \* remove_inline_comments: content
    lines,              \* remove_inline_comments: lines
    processed_lines,    \* remove_inline_comments: processed_lines
    processed_content,  \* remove_inline_comments: processed_content
    out,                \* what was printed, in order
    exit_code,          \* the process's exit status, "none" while it runs
    stage,              \* file name -> the step that raised for it (history)
    runs                \* direct calls of remove_inline_comments made so far

vars == <<argc, linesep, walk, fs, orig, pc, i, handles, content, lines,
          processed_lines, processed_content, out, exit_code, stage, runs>>

-----------------------------------------------------------------------------
(* Bounds *)

MaxLen == 5

MaxLines == 3

MaxRuns == 2

MaxFiles == 3

MaxArgc == 3

-----------------------------------------------------------------------------
(* Characters *)

LF == "\n"

CR == "\r"

BAD == "0xFF"

Whitespace == {" ", "\t", "\n", "\r", "\f"}

Range(s) == {s[k] : k \in 1..Len(s)}

StartsWith(s, p) == Len(s) >= Len(p) /\ SubSeq(s, 1, Len(p)) = p

EndsWith(s, p) == Len(s) >= Len(p) /\ SubSeq(s, Len(s) - Len(p) + 1, Len(s)) = p

-----------------------------------------------------------------------------
(* open(file_path, 'r', encoding='utf-8') ... f.read() *)

Decodable(bytes) == BAD \notin Range(bytes)

RECURSIVE UniversalNewlines(_)
UniversalNewlines(s) ==
    IF s = <<>> THEN <<>>
    ELSE IF Head(s) = CR
         THEN <<LF>> \o UniversalNewlines(IF Len(s) >= 2 /\ s[2] = LF
                                          THEN SubSeq(s, 3, Len(s))
                                          ELSE Tail(s))
         ELSE <<Head(s)>> \o UniversalNewlines(Tail(s))

ReadText(bytes) == UniversalNewlines(bytes)

(* content.split('\n') *)

RECURSIVE Split(_)
Split(s) ==
    IF LF \notin Range(s) THEN <<s>>
    ELSE LET k == CHOOSE n \in 1..Len(s) :
                      s[n] = LF /\ \A m \in 1..(n - 1) : s[m] # LF
         IN  <<SubSeq(s, 1, k - 1)>> \o Split(SubSeq(s, k + 1, Len(s)))

(* re.match(r'^\s*//', line) *)

LeadingSpace(line) ==
    CHOOSE n \in 0..Len(line) :
        /\ \A m \in 1..n : line[m] \in Whitespace
        /\ (n < Len(line) => line[n + 1] \notin Whitespace)

\* variant: re.search in place of re.match (the marker anywhere in the line)
MatchAnywhere(line) ==
    \E n \in 1..Len(line) : n < Len(line) /\ line[n] = "/" /\ line[n + 1] = "/"

\* variant: the pattern without \s* (the marker at column 0 only)
MatchNoIndent(line) == Len(line) >= 2 /\ line[1] = "/" /\ line[2] = "/"

MatchLineComment(line) ==
    LET n == LeadingSpace(line)
    IN  Len(line) >= n + 2 /\ line[n + 1] = "/" /\ line[n + 2] = "/"

(* line.strip().startswith('/**') *)

TrailingSpace(line) ==
    CHOOSE n \in 0..Len(line) :
        /\ \A m \in (Len(line) - n + 1)..Len(line) : line[m] \in Whitespace
        /\ (n < Len(line) => line[Len(line) - n] \notin Whitespace)

Strip(line) ==
    IF LeadingSpace(line) = Len(line) THEN <<>>
    ELSE SubSeq(line, LeadingSpace(line) + 1, Len(line) - TrailingSpace(line))

IsJSDoc(line) == StartsWith(Strip(line), <<"/", "*", "*">>)

(* the body of the for loop: TRUE when the line is skipped (continue) *)

\* variant: every line that starts a comment is skipped, /* and /** too
DropCommentStart(line) ==
    LET n == LeadingSpace(line)
    IN  Len(line) >= n + 2 /\ line[n + 1] = "/" /\ line[n + 2] \in {"/", "*"}

DropLine(line) == MatchLineComment(line) /\ ~IsJSDoc(line)

\* variant: a filter that tracks block comments and keeps what lies inside
Contains(s, p) == \E n \in 0..(Len(s) - Len(p)) : SubSeq(s, n + 1, n + Len(p)) = p

OpensBlock(line) ==
    /\ StartsWith(Strip(line), <<"/", "*">>)
    /\ ~Contains(Tail(Tail(Strip(line))), <<"*", "/">>)

ClosesBlock(line) == Contains(line, <<"*", "/">>)

InsideBlock(ls, k) ==
    /\ k \in 1..Len(ls)
    /\ \E j \in 1..(k - 1) :
           /\ OpensBlock(ls[j])
           /\ \A m \in (j + 1)..k : ~ClosesBlock(ls[m])
    /\ \E n \in (k + 1)..Len(ls) : ClosesBlock(ls[n])

RECURSIVE KeepFrom(_, _)
KeepFrom(ls, k) ==
    IF k > Len(ls) THEN <<>>
    ELSE IF DropLine(ls[k]) /\ ~InsideBlock(ls, k) THEN KeepFrom(ls, k + 1)
         ELSE <<ls[k]>> \o KeepFrom(ls, k + 1)

FilterLinesBlockAware(ls) == KeepFrom(ls, 1)

RECURSIVE FilterLines(_)
FilterLines(ls) ==
    IF ls = <<>> THEN <<>>
    ELSE IF DropLine(Head(ls)) THEN FilterLines(Tail(ls))
         ELSE <<Head(ls)>> \o FilterLines(Tail(ls))

(* '\n'.join(processed_lines) *)

\* variant: every line written with its newline, the last one too
RECURSIVE JoinTerminated(_)
JoinTerminated(ls) ==
    IF ls = <<>> THEN <<>>
    ELSE ls[1] \o <<LF>> \o JoinTerminated(Tail(ls))

RECURSIVE Join(_)
Join(ls) ==
    IF ls = <<>> THEN <<>>
    ELSE IF Len(ls) = 1 THEN ls[1]
         ELSE ls[1] \o <<LF>> \o Join(Tail(ls))

(* open(file_path, 'w', encoding='utf-8') ... f.write(processed_content) *)

RECURSIVE WriteText(_, _)
WriteText(sep, text) ==
    IF text = <<>> THEN <<>>
    ELSE (IF Head(text) = LF THEN sep ELSE <<Head(text)>>)
         \o WriteText(sep, Tail(text))

-----------------------------------------------------------------------------
(* The directory tree and the inputs the model draws from *)

FileNames ==
    { <<"a", ".", "t", "s">>, <<"b", ".", "j", "s">>,
      <<"c", ".", "t", "s", "x">>, <<"t", "s">> }

FileContents ==
    { <<"/", "/", "x", LF, "x">>,
      <<"x", CR, LF, " ", "/", "/">>,
      <<"x", BAD>> }

Walks ==
    { w \in UNION {[1..n -> FileNames] : n \in 0..MaxFiles} :
          \A a, b \in 1..Len(w) : a # b => w[a] # w[b] }

Alphabet == {"/", "*", " ", "x", LF, CR}

Texts == UNION {[1..n -> Alphabet] : n \in 0..MaxLen}

Vocabulary ==
    { <<>>, <<"x">>, <<"/", "/">>, <<" ", "/", "/", "x">>,
      <<"/", "*">>, <<" ", "/", "*", "*">>, <<"*", "/">> }

Documents ==
    { Join(ls) : ls \in UNION {[1..n -> Vocabulary] : n \in 1..MaxLines} }

NoLocals ==
    /\ content = <<>>
    /\ lines = <<>>
    /\ processed_lines = <<>>
    /\ processed_content = <<>>

Report(kind, path, msg) == [kind |-> kind, path |-> path, msg |-> msg]

-----------------------------------------------------------------------------
(* main *)

Init ==
    /\ argc \in 1..MaxArgc
    /\ linesep \in {<<LF>>, <<CR, LF>>}
    /\ walk \in Walks
    /\ fs \in [Range(walk) -> FileContents]
    /\ orig = fs
    /\ pc = "main"
    /\ i = 1
    /\ handles = {}
    /\ NoLocals
    /\ out = <<>>
    /\ exit_code = "none"
    /\ stage = [n \in Range(walk) |-> "none"]
    /\ runs = 0

\* variant: only a missing argument is refused (len(sys.argv) < 2)
CheckArgsAtLeast ==
    /\ pc = "main"
    /\ IF argc < 2
       THEN /\ out' = Append(out, Report("Usage", <<>>, ""))
            /\ exit_code' = "1"
            /\ pc' = "exited"
       ELSE /\ pc' = "walk"
            /\ UNCHANGED <<out, exit_code>>
    /\ UNCHANGED <<argc, linesep, walk, fs, orig, i, handles, content, lines,
                   processed_lines, processed_content, stage, runs>>

(* if len(sys.argv) != 2: print usage, sys.exit(1) *)
CheckArgs ==
    /\ pc = "main"
    /\ IF argc # 2
       THEN /\ out' = Append(out, Report("Usage", <<>>, ""))
            /\ exit_code' = "1"
            /\ pc' = "exited"
       ELSE /\ pc' = "walk"
            /\ UNCHANGED <<out, exit_code>>
    /\ UNCHANGED <<argc, linesep, walk, fs, orig, i, handles, content, lines,
                   processed_lines, processed_content, stage, runs>>

\* variant: the extension looked for anywhere in the name
MatchesAnywhere(file) ==
    Contains(file, <<".", "t", "s">>) \/ Contains(file, <<".", "j", "s">>)

(* file.endswith('.ts') or file.endswith('.js') *)
Matches(file) ==
    EndsWith(file, <<".", "t", "s">>) \/ EndsWith(file, <<".", "j", "s">>)

(* for root, dirs, files in os.walk(directory): for file in files: if ... *)
NextFile ==
    /\ pc = "walk"
    /\ IF i > Len(walk)
       THEN /\ pc' = "done"
            /\ exit_code' = "0"
            /\ i' = i
       ELSE IF Matches(walk[i])
            THEN /\ pc' = "open_r"
                 /\ UNCHANGED <<exit_code, i>>
            ELSE /\ i' = i + 1
                 /\ UNCHANGED <<exit_code, pc>>
    /\ UNCHANGED <<argc, linesep, walk, fs, orig, handles, content, lines,
                   processed_lines, processed_content, out, stage, runs>>

\* variant: no try/except around the call, the exception ends the run
Uncaught(p, step, msg) ==
    /\ out' = Append(out, Report("Traceback", p, msg))
    /\ stage' = [stage EXCEPT ![p] = step]
    /\ i' = i
    /\ pc' = "crashed"
    /\ exit_code' = "1"

(* except Exception as e: print(f"Error processing {file_path}: {e}") *)
Except(p, step, msg) ==
    /\ out' = Append(out, Report("Error", p, msg))
    /\ stage' = [stage EXCEPT ![p] = step]
    /\ i' = i + 1
    /\ pc' = "walk"
    /\ UNCHANGED exit_code

\* variant: the file opened in a truncating mode before it is read
OpenReadTruncating ==
    /\ pc = "open_r"
    /\ fs' = [fs EXCEPT ![walk[i]] = <<>>]
    /\ handles' = handles \cup {<<walk[i], "r">>}
    /\ pc' = "read"
    /\ UNCHANGED <<argc, linesep, walk, orig, i, content, lines,
                   processed_lines, processed_content, out, exit_code, stage,
                   runs>>

OpenReadOk ==
    /\ pc = "open_r"
    /\ handles' = handles \cup {<<walk[i], "r">>}
    /\ pc' = "read"
    /\ UNCHANGED <<argc, linesep, walk, fs, orig, i, content, lines,
                   processed_lines, processed_content, out, exit_code, stage,
                   runs>>

OpenReadFail ==
    /\ pc = "open_r"
    /\ Except(walk[i], "open_r", "OSError")
    /\ UNCHANGED <<argc, linesep, walk, fs, orig, handles, content, lines,
                   processed_lines, processed_content, runs>>

ReadOk ==
    /\ pc = "read"
    /\ Decodable(fs[walk[i]])
    /\ content' = ReadText(fs[walk[i]])
    /\ handles' = handles \ {<<walk[i], "r">>}
    /\ pc' = "filter"
    /\ UNCHANGED <<argc, linesep, walk, fs, orig, i, lines, processed_lines,
                   processed_content, out, exit_code, stage, runs>>

\* variant: no with block, a failed read leaves the file open
ReadFailLeak ==
    /\ pc = "read"
    /\ Except(walk[i], "read",
              IF Decodable(fs[walk[i]]) THEN "OSError" ELSE "UnicodeDecodeError")
    /\ UNCHANGED <<argc, linesep, walk, fs, orig, handles, content, lines,
                   processed_lines, processed_content, runs>>

ReadFail ==
    /\ pc = "read"
    /\ handles' = handles \ {<<walk[i], "r">>}
    /\ Except(walk[i], "read",
              IF Decodable(fs[walk[i]]) THEN "OSError" ELSE "UnicodeDecodeError")
    /\ UNCHANGED <<argc, linesep, walk, fs, orig, content, lines,
                   processed_lines, processed_content, runs>>

FilterStep ==
    /\ pc = "filter"
    /\ lines' = Split(content)
    /\ processed_lines' = FilterLines(lines')
    /\ processed_content' = Join(processed_lines')
    /\ pc' = "open_w"
    /\ UNCHANGED <<argc, linesep, walk, fs, orig, i, handles, content, out,
                   exit_code, stage, runs>>

OpenWriteOk ==
    /\ pc = "open_w"
    /\ fs' = [fs EXCEPT ![walk[i]] = <<>>]
    /\ handles' = handles \cup {<<walk[i], "w">>}
    /\ pc' = "write"
    /\ UNCHANGED <<argc, linesep, walk, orig, i, content, lines,
                   processed_lines, processed_content, out, exit_code, stage,
                   runs>>

OpenWriteFail ==
    /\ pc = "open_w"
    /\ Except(walk[i], "open_w", "OSError")
    /\ UNCHANGED <<argc, linesep, walk, fs, orig, handles, content, lines,
                   processed_lines, processed_content, runs>>

WriteOk ==
    /\ pc = "write"
    /\ fs' = [fs EXCEPT ![walk[i]] = WriteText(linesep, processed_content)]
    /\ handles' = handles \ {<<walk[i], "w">>}
    /\ out' = Append(out, Report("Processed", walk[i], ""))
    /\ i' = i + 1
    /\ pc' = "walk"
    /\ UNCHANGED <<argc, linesep, walk, orig, content, lines, processed_lines,
                   processed_content, exit_code, stage, runs>>

WriteFail ==
    /\ pc = "write"
    /\ \E n \in 0..Len(WriteText(linesep, processed_content)) :
           fs' = [fs EXCEPT
                    ![walk[i]] = SubSeq(WriteText(linesep, processed_content), 1, n)]
    /\ handles' = handles \ {<<walk[i], "w">>}
    /\ Except(walk[i], "write", "OSError")
    /\ UNCHANGED <<argc, linesep, walk, orig, content, lines, processed_lines,
                   processed_content, runs>>

Next ==
    \/ CheckArgs
    \/ NextFile
    \/ OpenReadOk
    \/ OpenReadFail
    \/ ReadOk
    \/ ReadFail
    \/ FilterStep
    \/ OpenWriteOk
    \/ OpenWriteFail
    \/ WriteOk
    \/ WriteFail

Spec == Init /\ [][Next]_vars

-----------------------------------------------------------------------------
(* remove_inline_comments called on one file, every step of it succeeding *)

FilterPath == <<"a", ".", "t", "s">>

FilterInit ==
    /\ argc = 2
    /\ linesep \in {<<LF>>, <<CR, LF>>}
    /\ walk = <<FilterPath>>
    /\ fs \in [{FilterPath} -> Texts \cup Documents]
    /\ orig = fs
    /\ pc = "call"
    /\ i = 1
    /\ handles = {}
    /\ NoLocals
    /\ out = <<>>
    /\ exit_code = "none"
    /\ stage = [n \in {FilterPath} |-> "none"]
    /\ runs = 0

RemoveInlineComments ==
    /\ pc = "call"
    /\ runs < MaxRuns
    /\ content' = ReadText(fs[FilterPath])
    /\ lines' = Split(content')
    /\ processed_lines' = FilterLines(lines')
    /\ processed_content' = Join(processed_lines')
    /\ fs' = [fs EXCEPT ![FilterPath] = WriteText(linesep, processed_content')]
    /\ out' = Append(out, Report("Processed", FilterPath, ""))
    /\ runs' = runs + 1
    /\ UNCHANGED <<argc, linesep, walk, orig, pc, i, handles, exit_code, stage>>

FilterNext == RemoveInlineComments

FilterSpec == FilterInit /\ [][FilterNext]_vars

-----------------------------------------------------------------------------
(* The vocabulary of the claims, stated apart from the code's own tests *)

\* the line starts with the single-line comment marker once leading
\* whitespace is ignored
StartsWithLineComment(line) ==
    \E k \in 0..Len(line) :
        /\ \A m \in 1..k : line[m] \in Whitespace
        /\ k + 2 <= Len(line)
        /\ line[k + 1] = "/"
        /\ line[k + 2] = "/"

\* the trimmed line starts with the documentation-block opening marker
StartsWithDocMarker(line) ==
    \E k \in 0..Len(line) :
        /\ \A m \in 1..k : line[m] \in Whitespace
        /\ k + 3 <= Len(line)
        /\ line[k + 1] = "/"
        /\ line[k + 2] = "*"
        /\ line[k + 3] = "*"

NonCommentLines(ls) == SelectSeq(ls, LAMBDA l : ~StartsWithLineComment(l))

DocLines(ls) == SelectSeq(ls, StartsWithDocMarker)

RECURSIVE IsSubseq(_, _)
IsSubseq(a, b) ==
    IF a = <<>> THEN TRUE
    ELSE IF b = <<>> THEN FALSE
         ELSE IF Head(a) = Head(b) THEN IsSubseq(Tail(a), Tail(b))
              ELSE IsSubseq(a, Tail(b))

\* the lines of the text handed to f.write
OutputLines == Split(processed_content)

\* the name ends in .ts or .js
RecognizedExtension(name) ==
    /\ Len(name) >= 3
    /\ name[Len(name) - 2] = "."
    /\ name[Len(name) - 1] \in {"t", "j"}
    /\ name[Len(name)] = "s"

\* what a run without failures leaves in a file that held c
Filtered(c) == WriteText(linesep, Join(FilterLines(Split(ReadText(c)))))

Reported(kind) == {out[k].path : k \in {n \in 1..Len(out) : out[n].kind = kind}}

-----------------------------------------------------------------------------
(* Claims about the line filter, checked under FilterSpec *)

\* C1 as stated: every line of the content that does not start with // is in
\* the output verbatim and in order, and the output's lines (the output split
\* on newlines) are a subsequence of the input's lines.
C1_AsStated ==
    runs >= 1 =>
        /\ lines = Split(content)
        /\ IsSubseq(NonCommentLines(lines), OutputLines)
        /\ IsSubseq(OutputLines, lines)

\* C1 amended: every line that does not start with // is in the output
\* verbatim and in order; the output's lines are a subsequence of the input's
\* lines unless every line was dropped, and then the output is the empty
\* string (one empty line, which is no line of the input).
C1_KeptVerbatimInOrder ==
    runs >= 1 =>
        /\ lines = Split(content)
        /\ IsSubseq(NonCommentLines(lines), OutputLines)
        /\ NonCommentLines(lines) # <<>> => IsSubseq(OutputLines, lines)
        /\ NonCommentLines(lines) = <<>> => processed_content = <<>>

C1_Witness ==
    /\ runs = 1
    /\ Len(NonCommentLines(lines)) >= 2
    /\ Len(NonCommentLines(lines)) < Len(lines)
    /\ OutputLines = NonCommentLines(lines)

\* C2: no line that starts with // (leading whitespace ignored) is in the
\* content written back, and a file of such lines only becomes empty.
C2_CommentLinesRemoved ==
    runs >= 1 =>
        /\ \A k \in 1..Len(OutputLines) : ~StartsWithLineComment(OutputLines[k])
        /\ \A k \in 1..Len(Split(fs[FilterPath])) :
               ~StartsWithLineComment(Split(fs[FilterPath])[k])
        /\ NonCommentLines(lines) = <<>> => fs[FilterPath] = <<>>

C2_Witness ==
    /\ runs = 1
    /\ \E k \in 1..Len(lines) :
           StartsWithLineComment(lines[k]) /\ lines[k][1] \in Whitespace
    /\ \E k \in 1..Len(lines) : lines[k] = <<"/", "/">>
    /\ fs[FilterPath] # <<>>

\* C3: every line whose trimmed text starts with /** is in the output, in
\* its place among such lines.
C3_DocLinesPreserved ==
    runs >= 1 => DocLines(OutputLines) = DocLines(lines)

C3_Witness ==
    /\ runs = 1
    /\ DocLines(lines) # <<>>
    /\ Len(processed_lines) < Len(lines)
    /\ DocLines(OutputLines) = DocLines(lines)

\* C4: filtering a file that already holds a filtered content leaves the
\* file as it is.
C4_Idempotent == [][runs >= 1 => fs' = fs]_vars

C4_Witness ==
    /\ runs = 2
    /\ fs # orig
    /\ \E k \in 1..Len(orig[FilterPath]) : orig[FilterPath][k] = LF

-----------------------------------------------------------------------------
(* Claims about main, checked under Spec *)

\* the matching files main is through with, in walk order
Finished == SelectSeq(SubSeq(walk, 1, i - 1), RecognizedExtension)

\* C5: a file whose read, decode or write failed gets an Error report, the
\* walk goes on to the files after it (each matching file the walk is through
\* with has its one report, in walk order, and a Processed file holds its
\* filtered content), the run can always take its next step, and it ends with
\* status 0, never with the argument error's status 1.
C5_FailureRecovered ==
    /\ pc \in {"main", "walk", "open_r", "read", "filter", "open_w", "write",
               "done", "exited"}
    /\ pc \notin {"done", "exited"} => ENABLED Next
    /\ argc = 2 =>
        /\ [k \in 1..Len(out) |-> out[k].path] = Finished
        /\ \A k \in 1..Len(out) :
               /\ out[k].kind \in {"Processed", "Error"}
               /\ out[k].kind = "Error" <=> stage[out[k].path] # "none"
               /\ out[k].kind = "Processed" =>
                      fs[out[k].path] = Filtered(orig[out[k].path])
        /\ exit_code # "1"
        /\ pc = "done" => i = Len(walk) + 1 /\ exit_code = "0"

C5_Witness ==
    /\ pc = "done"
    /\ Len(out) = 2
    /\ out[1].kind = "Error"
    /\ out[2].kind = "Processed"
    /\ fs[out[2].path] # orig[out[2].path]

\* C6: with an argument count other than one the program prints the usage
\* message and exits with status 1; no file is ever open and none changes.
C6_UsageExitTouchesNothing ==
    argc # 2 =>
        /\ pc \in {"main", "exited"}
        /\ handles = {}
        /\ fs = orig
        /\ \A n \in Range(walk) : stage[n] = "none"
        /\ pc = "main" => out = <<>> /\ exit_code = "none"
        /\ pc = "exited" => out = <<Report("Usage", <<>>, "")>> /\ exit_code = "1"

C6_Witness ==
    /\ argc = 3
    /\ pc = "exited"
    /\ \E n \in Range(walk) : RecognizedExtension(n) /\ Filtered(orig[n]) # orig[n]

\* C7: a file whose name does not end in .ts or .js is never opened and
\* keeps its initial content.
C7_OtherFilesUntouched ==
    \A n \in Range(walk) :
        ~RecognizedExtension(n) =>
            /\ fs[n] = orig[n]
            /\ \A h \in handles : h[1] # n
            /\ stage[n] = "none"
            /\ n \notin Reported("Processed") \cup Reported("Error")

C7_Witness ==
    /\ pc = "done"
    /\ Len(walk) = 2
    /\ ~RecognizedExtension(walk[1])
    /\ Filtered(orig[walk[1]]) # orig[walk[1]]
    /\ fs[walk[2]] # orig[walk[2]]

\* C9: at most one file is open, it is the file being processed, and no
\* file is open between two files or after the run, whether the file's
\* processing ended in success or in a failure.
C9_OneHandleScoped ==
    /\ Cardinality(handles) <= 1
    /\ pc = "read" => handles = {<<walk[i], "r">>}
    /\ pc = "write" => handles = {<<walk[i], "w">>}
    /\ pc \notin {"read", "write"} => handles = {}

C9_Witness ==
    /\ Len(walk) = 2
    /\ i = 2
    /\ stage[walk[1]] = "read"
    /\ handles = {<<walk[2], "w">>}

\* C10: a file is open for writing only after its whole content was read
\* and decoded; a file whose open-for-read, read or decode failed keeps its
\* content; and a file holds something other than its original or its
\* filtered content only while it is being written or after its write failed.
C10_WriteOnlyAfterRead ==
    \A n \in Range(walk) :
        /\ <<n, "w">> \in handles =>
               Decodable(orig[n]) /\ content = ReadText(orig[n])
        /\ stage[n] \in {"open_r", "read"} => fs[n] = orig[n]
        /\ fs[n] \notin {orig[n], Filtered(orig[n])} =>
               stage[n] = "write" \/ <<n, "w">> \in handles

C10_Witness ==
    /\ pc = "done"
    /\ Len(walk) = 2
    /\ stage[walk[1]] = "read"
    /\ ~Decodable(orig[walk[1]])
    /\ stage[walk[2]] = "write"
    /\ fs[walk[2]] \notin {orig[walk[2]], Filtered(orig[walk[2]])}

====
